---- MODULE Spec2Model ----
(***************************************************************************)
(* A model of the peer-to-peer ledger node: the hash primitive, blocks and *)
(* proof-of-work, the chain with its validation gate and fork-choice, and  *)
(* the gossip handlers driven by the node's event loop.                    *)
(*                                                                         *)
(* Text is modelled as a sequence of characters, a character as a natural  *)
(* number: 0..15 are the hex digits, every other number is a non-hex       *)
(* character.  SHA-256 is modelled as a collision-free digest: two         *)
(* pseudo-random leading bytes computed from the message, followed by the  *)
(* message itself.  Block ids stay far below 2^64 in every run, so the     *)
(* u64 additions of the code never wrap.  Numbers in a JSON text are one   *)
(* character each.                                                         *)
(***************************************************************************)
EXTENDS Integers, Sequences, FiniteSets, TLC

\* ------------------------------------------------------------------ bounds

\* Timestamps Utc::now() may return are 1..MaxTime.
MaxTime == 1
\* Payloads of created blocks are 1..MaxData.
MaxData == 1
\* The digest's leading bytes cycle with this period, so that mining ends
\* within LeadMod nonces.
LeadMod == 3
\* Chains handed to the chain functions have at most MaxLen blocks.
MaxLen == 3

Timestamp == 1..MaxTime
Data == 1..MaxData

\* ------------------------------------------------------------ hash.rs

\* A non-hex character, standing for the text "GENESIS!".
GENESIS_SENTINEL == <<16>>

\* The pre-computed genesis hash "0000f8...": hex digits with the prefix.
GENESIS_HASH == <<0, 0, 0, 0, 15, 8>>

DIFFICULTY == <<0, 0, 0, 0>>

IsHexDigit(c) == c \in 0..15

\* hex::encode: two hex digits per byte.
HexEncode(bytes) ==
    [i \in 1..(2 * Len(bytes)) |->
        IF i % 2 = 1 THEN bytes[(i + 1) \div 2] \div 16 ELSE bytes[i \div 2] % 16]

\* The sum of s[lo..hi], by halves.
RECURSIVE SumRange(_, _, _)
SumRange(s, lo, hi) ==
    IF lo > hi THEN 0
    ELSE IF lo = hi THEN s[lo]
    ELSE LET mid == (lo + hi) \div 2
         IN  SumRange(s, lo, mid) + SumRange(s, mid + 1, hi)

SumSeq(s) == SumRange(s, 1, Len(s))

\* The digest bytes of a message of 4-bit characters: two leading bytes that
\* depend on every character of the message, then the message, two
\* characters to a byte behind a mark of its parity (no two messages collide).
Sha256(msg) ==
    LET m == SumSeq(msg) % LeadMod
        nibbles == IF Len(msg) % 2 = 0 THEN <<0, 0>> \o msg ELSE <<1>> \o msg
    IN  <<m, m>> \o [i \in 1..(Len(nibbles) \div 2) |->
                        16 * nibbles[2 * i - 1] + nibbles[2 * i]]

\* Hash::new
HashNew(data) == HexEncode(Sha256(data))

\* str::starts_with
StartsWith(s, prefix) ==
    /\ Len(s) >= Len(prefix)
    /\ SubSeq(s, 1, Len(prefix)) = prefix

\* Hash::matches_difficulty
MatchesDifficulty(h, difficulty) == StartsWith(h, difficulty)

\* Hash::decode succeeds (hex::decode: an even number of hex digits).
DecodeOk(h) ==
    /\ Len(h) % 2 = 0
    /\ \A i \in 1..Len(h) : IsHexDigit(h[i])

\* ----------------------------------------------------------- block.rs

\* The order of the keys of a serde_json object (a BTreeMap: sorted keys).
KeyOrder == [data |-> 1, id |-> 2, nonce |-> 3, previous_hash |-> 4, timestamp |-> 5]

RECURSIVE InsertPair(_, _)
InsertPair(sorted, p) ==
    IF sorted = <<>> THEN <<p>>
    ELSE IF KeyOrder[p.key] < KeyOrder[Head(sorted).key]
         THEN <<p>> \o sorted
         ELSE <<Head(sorted)>> \o InsertPair(Tail(sorted), p)

RECURSIVE SortPairs(_)
SortPairs(pairs) ==
    IF pairs = <<>> THEN <<>>
    ELSE InsertPair(SortPairs(SubSeq(pairs, 1, Len(pairs) - 1)), pairs[Len(pairs)])

\* A mutant of JsonObject: a map that keeps the insertion order of its keys.
JsonObjectInsertionOrder(pairs) == pairs

\* serde_json::json!({...}): the pairs, inserted in the order written, are
\* held in key order.
JsonObject(pairs) == SortPairs(pairs)

\* A character of a JSON value as 4-bit characters: itself, or an escape.
EscapeChar(c) == IF c < 15 THEN <<c>> ELSE <<15, c - 15>>

\* The characters s[lo..hi] of a JSON value, escaped (by halves).
RECURSIVE EscapeRange(_, _, _)
EscapeRange(s, lo, hi) ==
    IF lo > hi THEN <<>>
    ELSE IF lo = hi THEN EscapeChar(s[lo])
    ELSE LET mid == (lo + hi) \div 2
         IN  EscapeRange(s, lo, mid) \o EscapeRange(s, mid + 1, hi)

\* Value::to_string: each key, then its value.
RECURSIVE JsonToString(_)
JsonToString(obj) ==
    IF obj = <<>> THEN <<>>
    ELSE <<KeyOrder[Head(obj).key]>> \o EscapeRange(Head(obj).val, 1, Len(Head(obj).val))
         \o JsonToString(Tail(obj))

Pair(k, v) == [key |-> k, val |-> v]

MkBlock(id, timestamp, nonce, hash, previous_hash, data) ==
    [id |-> id, timestamp |-> timestamp, nonce |-> nonce, hash |-> hash,
     previous_hash |-> previous_hash, data |-> data]

\* Block::regenerate_hash
RegenerateHash(b) ==
    HashNew(JsonToString(JsonObject(<<
        Pair("id", <<b.id>>),
        Pair("timestamp", <<b.timestamp>>),
        Pair("nonce", <<b.nonce>>),
        Pair("previous_hash", b.previous_hash),
        Pair("data", <<b.data>>) >>)))

\* Block::calculate_hash
CalculateHash(id, timestamp, previous_hash, data, nonce) ==
    HashNew(JsonToString(JsonObject(<<
        Pair("id", <<id>>),
        Pair("timestamp", <<timestamp>>),
        Pair("previous_hash", previous_hash),
        Pair("data", <<data>>),
        Pair("nonce", <<nonce>>) >>)))

\* Block::mine_block: the loop from the given nonce on.
RECURSIVE MineFrom(_, _, _, _, _)
MineFrom(id, timestamp, previous_hash, data, nonce) ==
    LET hash == CalculateHash(id, timestamp, previous_hash, data, nonce)
    IN  IF MatchesDifficulty(hash, DIFFICULTY)
        THEN [nonce |-> nonce, hash |-> hash]
        ELSE MineFrom(id, timestamp, previous_hash, data, nonce + 1)

\* A mutant of MineBlock: the search skips nonce 0.
MineBlockFromOne(id, timestamp, previous_hash, data) ==
    MineFrom(id, timestamp, previous_hash, data, 1)

\* Block::mine_block: let mut nonce = 0, then the loop.
MineBlock(id, timestamp, previous_hash, data) ==
    MineFrom(id, timestamp, previous_hash, data, 0)

\* A mutant of BlockNew: the block carries the digest of nonce 0, unmined.
BlockNewUnmined(id, previous_hash, data, now) ==
    MkBlock(id, now, 0, CalculateHash(id, now, previous_hash, data, 0),
            previous_hash, data)

\* Block::new, with `now` the value of Utc::now().timestamp().
BlockNew(id, previous_hash, data, now) ==
    LET mined == MineBlock(id, now, previous_hash, data)
    IN  MkBlock(id, now, mined.nonce, mined.hash, previous_hash, data)

\* Block::genesis, with `now` the value of Utc::now().timestamp().
BlockGenesis(now) == MkBlock(0, now, 0, GENESIS_HASH, GENESIS_SENTINEL, 0)

\* Block::is_genesis
IsGenesis(b) == b.id = 0

\* A mutant of IsValid: the stored hash is not compared with the digest
\* recomputed from the block.
IsValidUnbound(b, previous_block) ==
    IF b.previous_hash # previous_block.hash THEN FALSE
    ELSE IF ~DecodeOk(b.hash) THEN FALSE
    ELSE IF ~StartsWith(b.hash, DIFFICULTY) THEN FALSE
    ELSE IF b.id # previous_block.id + 1 THEN FALSE
    ELSE TRUE

\* Block::is_valid
IsValid(b, previous_block) ==
    IF b.previous_hash # previous_block.hash THEN FALSE
    ELSE IF ~DecodeOk(b.hash) THEN FALSE
    ELSE IF ~StartsWith(b.hash, DIFFICULTY) THEN FALSE
    ELSE IF b.id # previous_block.id + 1 THEN FALSE
    ELSE IF RegenerateHash(b) # b.hash THEN FALSE
    ELSE TRUE

\* ------------------------------------------------------ blockchain.rs

\* Blockchain::new
BlockchainNew == <<>>

\* Blockchain::genesis
BlockchainGenesis(now) == <<BlockGenesis(now)>>

\* A mutant of AddBlock: the block is pushed without the is_valid check.
AddBlockUnchecked(blocks, block) ==
    IF blocks = <<>> THEN [result |-> "panic", blocks |-> blocks]
    ELSE [result |-> "ok", blocks |-> Append(blocks, block)]

\* Blockchain::add_block: blocks.last().unwrap() panics on an empty chain.
AddBlock(blocks, block) ==
    IF blocks = <<>> THEN [result |-> "panic", blocks |-> blocks]
    ELSE IF ~IsValid(block, blocks[Len(blocks)])
         THEN [result |-> "err", blocks |-> blocks]
         ELSE [result |-> "ok", blocks |-> Append(blocks, block)]

\* Blockchain::is_chain_valid from position i (1-based) on: "true", "false"
\* or "panic".  For a non-genesis block the closure evaluates
\* self.blocks[i - 1].is_valid(block); at the first position i - 1
\* underflows and the indexing panics.
RECURSIVE IsChainValidFrom(_, _)
IsChainValidFrom(blocks, i) ==
    IF i > Len(blocks) THEN "true"
    ELSE IF IsGenesis(blocks[i]) THEN IsChainValidFrom(blocks, i + 1)
    ELSE IF i = 1 THEN "panic"
    ELSE IF IsValid(blocks[i - 1], blocks[i]) THEN IsChainValidFrom(blocks, i + 1)
    ELSE "false"

IsChainValid(blocks) == IsChainValidFrom(blocks, 1)

\* A mutant of ChooseChain: the remote chain is returned whatever its length.
ChooseChainAlwaysRemote(self, local, remote) ==
    IF IsChainValid(self) = "panic" \/ IsChainValid(self) = "false"
    THEN [result |-> "panic", blocks |-> <<>>]
    ELSE [result |-> "ok", blocks |-> remote]

\* Blockchain::choose_chain: both flags are computed from self.
ChooseChain(self, local, remote) ==
    LET is_local_valid == IsChainValid(self)
        is_remote_valid == IsChainValid(self)
    IN  IF is_local_valid = "panic" \/ is_remote_valid = "panic"
        THEN [result |-> "panic", blocks |-> <<>>]
        ELSE IF is_local_valid = "false" /\ is_remote_valid = "false"
        THEN [result |-> "panic", blocks |-> <<>>]
        ELSE IF is_local_valid = "true" /\ is_remote_valid = "false"
        THEN [result |-> "ok", blocks |-> local]
        ELSE IF is_local_valid = "false" /\ is_remote_valid = "true"
        THEN [result |-> "ok", blocks |-> remote]
        ELSE IF Len(local) > Len(remote)
        THEN [result |-> "ok", blocks |-> local]
        ELSE [result |-> "ok", blocks |-> remote]

\* ------------------------------------------------------------- p2p.rs

\* The nodes of the network, and a peer outside it that publishes too.
Node == {"A", "B"}
EXTERNAL_PEER == "X"
PeerId == Node \cup {EXTERNAL_PEER}

NoBlock == MkBlock(0, 0, 0, <<>>, <<>>, 0)

\* A gossip payload: a JSON object, given by the set of its fields and
\* their values.  A payload that is no JSON object has no fields.
MkPayload(fields, blocks, receiver, from_peer_id, block) ==
    [fields |-> fields, blocks |-> blocks, receiver |-> receiver,
     from_peer_id |-> from_peer_id, block |-> block]

\* serde_json::to_string(&ChainResponse)
ChainResponseJson(blocks, receiver) ==
    MkPayload({"blocks", "receiver"}, blocks, receiver, "", NoBlock)

\* serde_json::to_string(&LocalChainRequest)
LocalChainRequestJson(from_peer_id) ==
    MkPayload({"from_peer_id"}, <<>>, "", from_peer_id, NoBlock)

\* Block::to_json_string
BlockJson(block) == MkPayload({"header", "data"}, <<>>, "", "", block)

\* serde_json::from_slice::<T>: every field of T is there; others are ignored.
ParsesAsChainResponse(p) == {"blocks", "receiver"} \subseteq p.fields
ParsesAsLocalChainRequest(p) == {"from_peer_id"} \subseteq p.fields
ParsesAsBlock(p) == {"header", "data"} \subseteq p.fields

VARIABLES
    chain,       \* chain[n]: the blocks of node n's blockchain
    running,     \* running[n]: node n's process has not panicked
    initDone,    \* initDone[n]: the Init event has been handled
    discovered,  \* discovered[n]: the peers mdns has discovered for n
    respQueue,   \* respQueue[n]: the response channel of n
    net,         \* gossip messages in flight
    created,     \* number of create block commands so far
    injected,    \* number of messages the external peer has published
    last,        \* the event handled by the last step
    fn           \* a single call of a chain function and its result

netVars == <<chain, running, initDone, discovered, respQueue, net, created, injected, last>>
vars == <<chain, running, initDone, discovered, respQueue, net, created, injected, last, fn>>

\* At most MaxCreate create block commands and MaxInject foreign messages.
MaxCreate == 2
MaxInject == 1
\* At most MaxNet messages are in flight: a publish waits for room.
MaxNet == 1

HasRoom(msgs) == Cardinality(net \cup msgs) <= MaxNet

NoPayload == MkPayload({}, <<>>, "", "", NoBlock)

NoEvent ==
    [op |-> "none", node |-> "", before |-> <<>>, payload |-> NoPayload,
     ran |-> {}, choose |-> "none", chosen |-> <<>>, add |-> "none",
     gate |-> FALSE, sent |-> 0, queued |-> 0]

NoCall ==
    [op |-> "none", local |-> <<>>, remote |-> <<>>, block |-> NoBlock,
     result |-> "none", blocks |-> <<>>]

\* floodsub.publish: one message to every peer of the partial view.
Published(n, payload) ==
    {[to |-> m, source |-> n, payload |-> payload] : m \in discovered[n]}

Init ==
    /\ chain = [n \in Node |-> BlockchainNew]
    /\ running = [n \in Node |-> TRUE]
    /\ initDone = [n \in Node |-> FALSE]
    /\ discovered = [n \in Node |-> {}]
    /\ respQueue = [n \in Node |-> <<>>]
    /\ net = {}
    /\ created = 0
    /\ injected = 0
    /\ last = NoEvent
    /\ fn = NoCall

\* inject_event(MdnsEvent::Discovered)
Discover(n, m) ==
    /\ running[n]
    /\ m \notin discovered[n]
    /\ discovered' = [discovered EXCEPT ![n] = @ \cup {m}]
    /\ last' = NoEvent
    /\ UNCHANGED <<chain, running, initDone, respQueue, net, created, injected, fn>>

\* inject_event(MdnsEvent::Expired)
Expire(n, m) ==
    /\ running[n]
    /\ m \in discovered[n]
    /\ discovered' = [discovered EXCEPT ![n] = @ \ {m}]
    /\ last' = NoEvent
    /\ UNCHANGED <<chain, running, initDone, respQueue, net, created, injected, fn>>

\* A mutant of InitPending: the Init event is there again after it was taken.
InitAlwaysPending(n) == TRUE

\* init_receiver.recv(): the timer task sends one Init event, which the loop
\* takes once.
InitPending(n) == ~initDone[n]

\* handle_init_event, with last_peer any of the discovered peers (the list
\* comes from a HashSet) and `now` the genesis timestamp.
HandleInitEvent(n, now) ==
    /\ running[n]
    /\ InitPending(n)
    /\ initDone' = [initDone EXCEPT ![n] = TRUE]
    /\ chain' = [chain EXCEPT ![n] = BlockchainGenesis(now)]
    /\ \/ /\ discovered[n] = {}
          /\ net' = net
          /\ last' = [NoEvent EXCEPT !.op = "init", !.node = n, !.before = chain[n]]
       \/ \E last_peer \in discovered[n] :
            LET req == LocalChainRequestJson(last_peer)
            IN  /\ HasRoom(Published(n, req))
                /\ net' = net \cup Published(n, req)
                /\ last' = [NoEvent EXCEPT !.op = "init", !.node = n,
                                           !.before = chain[n], !.payload = req,
                                           !.sent = Cardinality(net' \ net)]
    /\ UNCHANGED <<running, discovered, respQueue, created, injected, fn>>

\* A mutant of DoChainResponse: the receiver of the response is not compared
\* with the node's peer id.
DoChainResponseUnaddressed(n, p, s) ==
    IF ~(s.alive /\ ParsesAsChainResponse(p)) THEN s
    ELSE LET c == ChooseChain(s.blocks, s.blocks, p.blocks)
         IN  IF c.result = "panic"
             THEN [s EXCEPT !.alive = FALSE, !.ran = @ \cup {"chain_response"},
                            !.choose = "panic"]
             ELSE [s EXCEPT !.blocks = c.blocks, !.ran = @ \cup {"chain_response"},
                            !.choose = "ok", !.chosen = c.blocks]

\* handle_chain_response on the handler state s
DoChainResponse(n, p, s) ==
    IF ~(s.alive /\ ParsesAsChainResponse(p) /\ p.receiver = n) THEN s
    ELSE LET c == ChooseChain(s.blocks, s.blocks, p.blocks)
         IN  IF c.result = "panic"
             THEN [s EXCEPT !.alive = FALSE, !.ran = @ \cup {"chain_response"},
                            !.choose = "panic"]
             ELSE [s EXCEPT !.blocks = c.blocks, !.ran = @ \cup {"chain_response"},
                            !.choose = "ok", !.chosen = c.blocks]

\* handle_local_chain_request on the handler state s
DoLocalChainRequest(n, source, p, s) ==
    IF ~(s.alive /\ ParsesAsLocalChainRequest(p)) THEN s
    ELSE [s EXCEPT !.queue = Append(@, [blocks |-> s.blocks, receiver |-> source]),
                   !.ran = @ \cup {"chain_request"}]

\* handle_received_block on the handler state s
DoReceivedBlock(n, p, s) ==
    IF ~(s.alive /\ ParsesAsBlock(p)) THEN s
    ELSE LET a == AddBlock(s.blocks, p.block)
         IN  IF a.result = "panic"
             THEN [s EXCEPT !.alive = FALSE, !.ran = @ \cup {"block"}, !.add = "panic"]
             ELSE [s EXCEPT !.blocks = a.blocks, !.ran = @ \cup {"block"},
                            !.add = a.result, !.gate = TRUE]

\* inject_event(FloodsubEvent::Message): the three parses, one after another.
InjectFloodsubEvent(n, msg) ==
    LET s0 == [blocks |-> chain[n], queue |-> respQueue[n], alive |-> TRUE,
               ran |-> {}, choose |-> "none", chosen |-> <<>>, add |-> "none",
               gate |-> FALSE]
        s1 == DoChainResponse(n, msg.payload, s0)
        s2 == DoLocalChainRequest(n, msg.source, msg.payload, s1)
        s3 == DoReceivedBlock(n, msg.payload, s2)
    IN  /\ chain' = [chain EXCEPT ![n] = s3.blocks]
        /\ respQueue' = [respQueue EXCEPT ![n] = s3.queue]
        /\ running' = [running EXCEPT ![n] = s3.alive]
        /\ last' = [NoEvent EXCEPT !.op = "message", !.node = n,
                                   !.before = chain[n], !.payload = msg.payload,
                                   !.ran = s3.ran, !.choose = s3.choose,
                                   !.chosen = s3.chosen,
                                   !.add = s3.add, !.gate = s3.gate,
                                   !.queued = Len(s3.queue) - Len(respQueue[n])]

\* The swarm hands node n a message another node has published.
Deliver(n, msg) ==
    /\ running[n]
    /\ msg \in net
    /\ msg.to = n
    /\ InjectFloodsubEvent(n, msg)
    /\ net' = net \ {msg}
    /\ UNCHANGED <<initDone, discovered, created, injected, fn>>

\* handle_local_chain_response: the loop publishes the next queued response.
HandleLocalChainResponse(n) ==
    /\ running[n]
    /\ respQueue[n] # <<>>
    /\ LET resp == Head(respQueue[n])
           json == ChainResponseJson(resp.blocks, resp.receiver)
       IN  /\ HasRoom(Published(n, json))
           /\ net' = net \cup Published(n, json)
           /\ last' = [NoEvent EXCEPT !.op = "publish_response", !.node = n,
                                      !.before = chain[n], !.payload = json,
                                      !.sent = Cardinality(net' \ net)]
    /\ respQueue' = [respQueue EXCEPT ![n] = Tail(@)]
    /\ UNCHANGED <<chain, running, initDone, discovered, created, injected, fn>>

\* handle_create_block: blocks.last().unwrap() panics on an empty chain;
\* the new block is pushed onto blocks directly.
HandleCreateBlock(n, data, now) ==
    /\ running[n]
    /\ created < MaxCreate
    /\ created' = created + 1
    /\ IF chain[n] = <<>>
       THEN /\ running' = [running EXCEPT ![n] = FALSE]
            /\ last' = [NoEvent EXCEPT !.op = "create_block", !.node = n,
                                       !.before = chain[n], !.add = "panic"]
            /\ UNCHANGED <<chain, net>>
       ELSE LET latest_block == chain[n][Len(chain[n])]
                new_block == BlockNew(latest_block.id + 1, latest_block.hash, data, now)
                json == BlockJson(new_block)
            IN  /\ HasRoom(Published(n, json))
                /\ chain' = [chain EXCEPT ![n] = Append(@, new_block)]
                /\ net' = net \cup Published(n, json)
                /\ last' = [NoEvent EXCEPT !.op = "create_block", !.node = n,
                                           !.before = chain[n], !.payload = json,
                                           !.add = "pushed",
                                           !.sent = Cardinality(net' \ net)]
                /\ UNCHANGED running
    /\ UNCHANGED <<initDone, discovered, respQueue, injected, fn>>

\* ------------------------------------------------ inputs from outside

\* Ways a block is altered after it has been mined.
TamperKind == {"previous_hash", "hash_nonhex", "hash_prefix", "id", "data",
               "nonce", "timestamp"}

Tamper(b, kind) ==
    CASE kind = "previous_hash" ->
            [b EXCEPT !.previous_hash =
                IF @ = GENESIS_SENTINEL THEN GENESIS_HASH ELSE GENESIS_SENTINEL]
      [] kind = "hash_nonhex" -> [b EXCEPT !.hash = GENESIS_SENTINEL \o GENESIS_SENTINEL]
      [] kind = "hash_prefix" -> [b EXCEPT !.hash = <<1, 1>> \o @]
      [] kind = "id" -> [b EXCEPT !.id = @ + 1]
      [] kind = "data" -> [b EXCEPT !.data = @ + 1]
      [] kind = "nonce" -> [b EXCEPT !.nonce = @ + 1]
      [] kind = "timestamp" -> [b EXCEPT !.timestamp = @ + 1]

\* Ways a block is made anew with a correct digest but for another place:
\* mined for the next id, mined on another previous hash, or left with the
\* digest of the nonce after the mined one.
RemakeKind == {"other_id", "other_previous", "next_nonce"}

Remake(b, kind) ==
    CASE kind = "other_id" -> BlockNew(b.id + 1, b.previous_hash, b.data, b.timestamp)
      [] kind = "other_previous" ->
            BlockNew(b.id, Tamper(b, "previous_hash").previous_hash, b.data, b.timestamp)
      [] kind = "next_nonce" ->
            [b EXCEPT !.nonce = @ + 1,
                      !.hash = CalculateHash(b.id, b.timestamp, b.previous_hash,
                                             b.data, b.nonce + 1)]

\* The blocks Block::new can make for the tip of a non-empty chain.
MinedOn(blocks) ==
    LET tip == blocks[Len(blocks)]
    IN  {BlockNew(tip.id + 1, tip.hash, d, t) : d \in Data, t \in Timestamp}

\* The tip a peer sees for a node holding `blocks` (genesis when it has none).
SeenTip(blocks) == IF blocks = <<>> THEN BlockchainGenesis(1) ELSE blocks

\* The payloads the external peer may deliver to node n: no JSON object, a
\* flooded request that names another peer, a response whose last block is
\* altered, an announcement of an altered block, and an object with the
\* fields of all three schemas.
ForeignPayloads(n) ==
    LET seen == SeenTip(chain[n])
        tip == seen[Len(seen)]
        good == BlockNew(tip.id + 1, tip.hash, 1, 1)
        bad == Tamper(good, "previous_hash")
    IN  {NoPayload,
         LocalChainRequestJson(CHOOSE m \in Node : m # n),
         ChainResponseJson(Append(seen, bad), n),
         BlockJson(bad),
         MkPayload({"blocks", "receiver", "from_peer_id", "header", "data"},
                   seen, n, EXTERNAL_PEER, good)}

\* The swarm hands node n a message the external peer has published.
DeliverForeign(n, payload) ==
    /\ running[n]
    /\ injected < MaxInject
    /\ injected' = injected + 1
    /\ InjectFloodsubEvent(n, [to |-> n, source |-> EXTERNAL_PEER, payload |-> payload])
    /\ UNCHANGED <<initDone, discovered, net, created, fn>>

\* Some node is handed some payload of the external peer.
ForeignMessage ==
    /\ injected < MaxInject
    /\ \E n \in Node : \E payload \in ForeignPayloads(n) : DeliverForeign(n, payload)

Next ==
    \/ \E n \in Node : \E m \in Node \ {n} : Discover(n, m)
    \/ \E n \in Node : \E m \in Node \ {n} : Expire(n, m)
    \/ \E n \in Node, now \in Timestamp : HandleInitEvent(n, now)
    \/ \E n \in Node, msg \in net : Deliver(n, msg)
    \/ \E n \in Node : HandleLocalChainResponse(n)
    \/ \E n \in Node, data \in Data, now \in Timestamp : HandleCreateBlock(n, data, now)
    \/ ForeignMessage

Spec == Init /\ [][Next]_vars

\* The swarm discards a message whose recipient has stopped: the process
\* panicked, its event loop is gone and its connections are closed.
Drop(msg) ==
    /\ msg \in net
    /\ ~running[msg.to]
    /\ net' = net \ {msg}
    /\ last' = NoEvent
    /\ UNCHANGED <<chain, running, initDone, discovered, respQueue, created, injected, fn>>

\* The runs of the honest nodes under a fair event loop: select! takes
\* every branch that stays ready, so a queued response is published and a
\* message in flight is handed over or discarded.
LiveNext ==
    \/ \E n \in Node : \E m \in Node \ {n} : Discover(n, m)
    \/ \E n \in Node : \E m \in Node \ {n} : Expire(n, m)
    \/ \E n \in Node, now \in Timestamp : HandleInitEvent(n, now)
    \/ \E n \in Node, msg \in net : Deliver(n, msg)
    \/ \E n \in Node : HandleLocalChainResponse(n)
    \/ \E n \in Node, data \in Data, now \in Timestamp : HandleCreateBlock(n, data, now)
    \/ \E msg \in net : Drop(msg)

\* ENABLED <<\E msg \in net : Deliver(n, msg)>>_vars, written out: a handed
\* over message leaves net, so the step always changes vars.
DeliverReady(n) == running[n] /\ \E msg \in net : msg.to = n

\* Weak fairness of publishing a queued response, of handing over a message
\* (with its enabling condition written out) and of discarding one.
Fairness ==
    /\ \A n \in Node : WF_vars(HandleLocalChainResponse(n))
    /\ \A n \in Node : \/ []<>(~DeliverReady(n))
                        \/ []<><<\E msg \in net : Deliver(n, msg)>>_vars
    /\ WF_vars(\E msg \in net : Drop(msg))

LiveSpec == Init /\ [][LiveNext]_vars /\ Fairness

\* ------------------------------------------- calls of the chain functions

\* The valid chain of k blocks whose mined blocks all carry payload d and
\* timestamp t.
RECURSIVE Line(_, _, _)
Line(d, t, k) ==
    IF k = 1 THEN BlockchainGenesis(t)
    ELSE LET c == Line(d, t, k - 1)
             tip == c[Len(c)]
         IN  Append(c, BlockNew(tip.id + 1, tip.hash, d, t))

MinedChains == {Line(d, t, k) : d \in Data, t \in Timestamp, k \in 1..MaxLen}

\* Chains with one block altered, chains that lost their first block, chains
\* followed by a second genesis block, and the empty chain.
AlteredChains ==
    UNION {{[c EXCEPT ![i] = Tamper(c[i], kind)] : i \in 1..Len(c), kind \in TamperKind} :
            c \in MinedChains}

FnChains ==
    MinedChains \cup AlteredChains
    \cup {Tail(c) : c \in MinedChains}
    \cup {Append(c, BlockGenesis(1)) : c \in MinedChains}

\* Blocks offered to add_block on a chain: mined on its tip, mined and then
\* altered, or blocks the chain already holds.
FnBlocks(blocks) ==
    LET mined == MinedOn(SeenTip(blocks))
    IN  mined
        \cup {Tamper(b, kind) : b \in mined, kind \in TamperKind}
        \cup {Remake(b, kind) : b \in mined, kind \in RemakeKind}
        \cup {blocks[i] : i \in 1..Len(blocks)}

\* A call of is_chain_valid.
CallIsChainValid(c) ==
    /\ fn.op = "none"
    /\ fn' = [NoCall EXCEPT !.op = "is_chain_valid", !.local = c,
                            !.result = IsChainValid(c)]
    /\ UNCHANGED netVars

\* A call of choose_chain as handle_chain_response makes it:
\* blockchain.choose_chain(blockchain.clone(), remote_blockchain).
CallChooseChain(local, remote) ==
    /\ fn.op = "none"
    /\ LET c == ChooseChain(local, local, remote)
       IN  fn' = [NoCall EXCEPT !.op = "choose_chain", !.local = local,
                                !.remote = remote, !.result = c.result,
                                !.blocks = c.blocks]
    /\ UNCHANGED netVars

\* A call of add_block.
CallAddBlock(c, b) ==
    /\ fn.op = "none"
    /\ LET a == AddBlock(c, b)
       IN  fn' = [NoCall EXCEPT !.op = "add_block", !.local = c, !.block = b,
                                !.result = a.result, !.blocks = a.blocks]
    /\ UNCHANGED netVars

\* Block::new for the tip of a non-empty chain, then add_block of that block.
CallMineAndAdd(c, data, now) ==
    /\ fn.op = "none"
    /\ c # <<>>
    /\ LET tip == c[Len(c)]
           b == BlockNew(tip.id + 1, tip.hash, data, now)
           a == AddBlock(c, b)
       IN  fn' = [NoCall EXCEPT !.op = "mine_add", !.local = c, !.block = b,
                                !.result = a.result, !.blocks = a.blocks]
    /\ UNCHANGED netVars

\* The call returns.
Return ==
    /\ fn.op # "none"
    /\ fn' = NoCall
    /\ UNCHANGED netVars

\* One call at a time: a call is made only when none is outstanding.
FnNext ==
    \/ fn.op = "none" /\ \E c \in FnChains : CallIsChainValid(c)
    \/ fn.op = "none" /\ \E local \in FnChains, remote \in FnChains :
                            CallChooseChain(local, remote)
    \/ fn.op = "none" /\ \E c \in FnChains : \E b \in FnBlocks(c) : CallAddBlock(c, b)
    \/ fn.op = "none" /\ \E c \in FnChains, data \in Data, now \in Timestamp :
                            CallMineAndAdd(c, data, now)
    \/ Return

FnSpec == Init /\ [][FnNext]_vars

\* ------------------------------------------------------------- claims

\* A chain is entirely valid when every block after the first is valid
\* against its immediate predecessor.
EntirelyValid(blocks) ==
    \A i \in 2..Len(blocks) : IsValid(blocks[i], blocks[i - 1])

\* C2: fork-choice with exactly one entirely valid argument returns that
\* argument: local when only local is valid, remote when only remote is.
C2_ExactlyOneValidIsReturned ==
    fn.op = "choose_chain" =>
        /\ (EntirelyValid(fn.local) /\ ~EntirelyValid(fn.remote))
              => (fn.result = "ok" /\ fn.blocks = fn.local)
        /\ (EntirelyValid(fn.remote) /\ ~EntirelyValid(fn.local))
              => (fn.result = "ok" /\ fn.blocks = fn.remote)

\* C3: fork-choice between two entirely valid chains returns the strictly
\* longer one, whichever argument it is, and the remote one when the lengths
\* are equal; for chains of every length.
C3_LongerValidChainWins ==
    (fn.op = "choose_chain" /\ EntirelyValid(fn.local) /\ EntirelyValid(fn.remote)) =>
        /\ fn.result = "ok"
        /\ fn.blocks = IF Len(fn.local) > Len(fn.remote) THEN fn.local ELSE fn.remote

\* C4: fork-choice panics if and only if neither the local nor the remote
\* chain is entirely valid.
C4_PanicIffBothInvalid ==
    fn.op = "choose_chain" =>
        (fn.result = "panic" <=> (~EntirelyValid(fn.local) /\ ~EntirelyValid(fn.remote)))

\* C6: is_chain_valid returns true exactly when every block after the first
\* is valid against its immediate predecessor.
C6_IsChainValidIsPairwiseValidity ==
    fn.op = "is_chain_valid" => (fn.result = "true" <=> EntirelyValid(fn.local))

\* C7: a block mined for the tip of a non-empty chain has the difficulty
\* prefix, the validator recomputes the miner's digest, add_block succeeds
\* and the chain becomes the old chain followed by the block.
C7_MinedBlockIsAppended ==
    fn.op = "mine_add" =>
        LET tip == fn.local[Len(fn.local)]
        IN  /\ fn.block.id = tip.id + 1
            /\ fn.block.previous_hash = tip.hash
            /\ MatchesDifficulty(fn.block.hash, DIFFICULTY)
            /\ RegenerateHash(fn.block) = fn.block.hash
            /\ fn.result = "ok"
            /\ fn.blocks = Append(fn.local, fn.block)

\* C7's case: a block that took more than one nonce to mine was appended to
\* a chain of two or more blocks.
C7_Witness ==
    /\ fn.op = "mine_add"
    /\ Len(fn.local) >= 2
    /\ fn.block.nonce > 0
    /\ fn.result = "ok"

\* The last step was node n handling a gossip message.
Handled == last.op = "message"

\* The payload of the last message is a block announcement and nothing else.
IsBlockAnnounce(p) == p.fields = {"header", "data"}

\* The block of the last message cannot be appended to the chain it met.
NotAppendable ==
    \/ last.before = <<>>
    \/ ~IsValid(last.payload.block, last.before[Len(last.before)])

\* C1: handle_chain_response never replaces the node's chain with a
\* candidate in which some block fails is_valid against its predecessor.
C1_NeverAdoptsInvalidChain ==
    (/\ Handled
     /\ "chain_response" \in last.ran
     /\ last.choose = "ok"
     /\ ~EntirelyValid(last.payload.blocks)
     /\ last.payload.blocks # last.before)
        => last.chosen # last.payload.blocks

GenesisOnly(blocks) == Len(blocks) = 1 /\ IsGenesis(blocks[1])

ValidOfThree(blocks) ==
    Len(blocks) = 3 /\ IsGenesis(blocks[1]) /\ EntirelyValid(blocks)

\* C5: a node holding a valid 3-block chain that handles a response carrying
\* a genesis-only chain keeps running and keeps its chain, and a node holding
\* only genesis that handles a response carrying a valid 3-block chain keeps
\* running and holds that chain: after both, both hold the 3-block chain.
C5_BothConverge ==
    (Handled /\ last.payload.fields = {"blocks", "receiver"}
             /\ "chain_response" \in last.ran) =>
        /\ (ValidOfThree(last.before) /\ GenesisOnly(last.payload.blocks))
              => (running[last.node] /\ chain[last.node] = last.before)
        /\ (GenesisOnly(last.before) /\ ValidOfThree(last.payload.blocks))
              => (running[last.node] /\ chain[last.node] = last.payload.blocks)

\* C8: a block announcement that is not valid against the tip of a
\* non-empty chain is rejected with an error, the chain stays as it was and
\* the node publishes and queues nothing.
C8_InvalidBlockRejected ==
    (Handled /\ IsBlockAnnounce(last.payload) /\ last.before # <<>> /\ NotAppendable) =>
        /\ last.add = "err"
        /\ running[last.node]
        /\ chain[last.node] = last.before
        /\ last.sent = 0
        /\ last.queued = 0

\* C8's case: an announced block whose previous_hash is not the tip's hash
\* met a non-empty chain and was refused.
C8_Witness ==
    /\ Handled
    /\ IsBlockAnnounce(last.payload)
    /\ last.before # <<>>
    /\ last.payload.block.previous_hash # last.before[Len(last.before)].hash
    /\ last.add = "err"

\* C9: every step that appends one block to a node's chain, on a received
\* announcement or on create block, appends it through add_block.
C9_AddBlockIsTheOnlyGate ==
    (/\ last.op \in {"message", "create_block"}
     /\ "chain_response" \notin last.ran
     /\ Len(chain[last.node]) = Len(last.before) + 1)
        => last.gate

\* C10: a block announcement that cannot be appended, or a message that
\* matches no schema, leaves the node running with its chain unchanged, also
\* before the Init event.
C10_NonFatalErrorsKeepRunning ==
    (Handled /\ (\/ last.payload.fields = {}
                 \/ (IsBlockAnnounce(last.payload) /\ NotAppendable))) =>
        /\ running[last.node]
        /\ chain[last.node] = last.before

\* The five conditions of block validity, each stated on its own.
HasDifficultyPrefix(h) == Len(h) >= 4 /\ \A i \in 1..4 : h[i] = 0

IsWellFormedHex(h) == Len(h) % 2 = 0 /\ \A i \in 1..Len(h) : h[i] \in 0..15

FiveConditions(b, previous) ==
    /\ b.previous_hash = previous.hash
    /\ IsWellFormedHex(b.hash)
    /\ HasDifficultyPrefix(b.hash)
    /\ b.id = previous.id + 1
    /\ RegenerateHash(b) = b.hash

\* The fields the digest binds.
BoundFields == {"data", "nonce", "id", "previous_hash", "timestamp"}

\* C11: is_valid, as add_block evaluates it against the tip, is true exactly
\* when the five conditions hold; a valid block with any single one of data,
\* nonce, id, previous_hash or timestamp changed and not mined again is not
\* valid.
C11_IsValidIsFiveConditions ==
    (fn.op = "add_block" /\ fn.local # <<>>) =>
        LET tip == fn.local[Len(fn.local)]
        IN  /\ (fn.result = "ok") <=> FiveConditions(fn.block, tip)
            /\ \/ fn.result = "err"
               \/ ~\E b \in MinedOn(fn.local), kind \in BoundFields :
                      fn.block = Tamper(b, kind) /\ FiveConditions(b, tip)

\* C11's case: a valid block whose nonce alone was changed met the chain it
\* was mined for and was refused.
C11_Witness ==
    /\ fn.op = "add_block"
    /\ Len(fn.local) >= 2
    /\ \E b \in MinedOn(fn.local) :
          /\ FiveConditions(b, fn.local[Len(fn.local)])
          /\ fn.block = Tamper(b, "nonce")
    /\ fn.result = "err"

\* C12: the block Block::new returns carries the smallest nonce, counted
\* from 0, whose digest over (id, timestamp, previous_hash, data, nonce) has
\* the difficulty prefix, and that digest as its hash.
C12_MiningReturnsSmallestNonce ==
    fn.op = "mine_add" =>
        LET b == fn.block
            digest(k) == CalculateHash(b.id, b.timestamp, b.previous_hash, b.data, k)
        IN  /\ b.hash = digest(b.nonce)
            /\ HasDifficultyPrefix(b.hash)
            /\ \A k \in 0..(b.nonce - 1) : ~HasDifficultyPrefix(digest(k))

\* C12's case: mining went through nonces 0 and 1 before it found one.
C12_Witness ==
    /\ fn.op = "mine_add"
    /\ fn.block.nonce >= 2
    /\ HasDifficultyPrefix(fn.block.hash)

\* The payload of the last message is a chain request and nothing else.
IsChainRequest(p) == p.fields = {"from_peer_id"}

\* The payload of the last message is a chain response and nothing else.
IsChainResponse(p) == p.fields = {"blocks", "receiver"}

\* C14: a node that receives a chain request naming another peer queues no
\* chain response.
C14_OnlyAddressedPeerAnswers ==
    (Handled /\ IsChainRequest(last.payload) /\ last.payload.from_peer_id # last.node)
        => last.queued = 0

\* C15: the chain request a node publishes at its Init event carries the
\* node's own peer id in from_peer_id.
C15_RequestCarriesOwnPeerId ==
    (last.op = "init" /\ last.sent > 0) => last.payload.from_peer_id = last.node

\* C16: a chain response whose receiver is not the node's peer id runs no
\* fork-choice and leaves the node running with the chain it had.
C16_ForeignResponseIgnored ==
    (Handled /\ IsChainResponse(last.payload) /\ last.payload.receiver # last.node) =>
        /\ last.ran = {}
        /\ last.choose = "none"
        /\ running[last.node]
        /\ chain[last.node] = last.before

\* C16's case: a node was handed a response addressed to another peer whose
\* blocks are not the chain the node holds.
C16_Witness ==
    /\ Handled
    /\ IsChainResponse(last.payload)
    /\ last.payload.receiver # last.node
    /\ last.payload.blocks # last.before
    /\ chain[last.node] = last.before

\* C17: create block on a chain with tip T appends one block with
\* id = T.id + 1 and previous_hash = T.hash, publishes one announcement of
\* that block to every peer of the view, and a chain whose tip is T accepts
\* the block.
C17_CreateBlockAppendsAndAnnounces ==
    (last.op = "create_block" /\ last.before # <<>>) =>
        LET tip == last.before[Len(last.before)]
            b == last.payload.block
        IN  /\ running[last.node]
            /\ chain[last.node] = Append(last.before, b)
            /\ b.id = tip.id + 1
            /\ b.previous_hash = tip.hash
            /\ IsBlockAnnounce(last.payload)
            /\ last.sent = Cardinality(discovered[last.node])
            /\ AddBlock(<<tip>>, b) = [result |-> "ok", blocks |-> <<tip, b>>]

\* C17's case: a node holding two or more blocks created a block and
\* announced it to a peer.
C17_Witness ==
    /\ last.op = "create_block"
    /\ Len(last.before) >= 2
    /\ last.add = "pushed"
    /\ last.sent >= 1

\* Node n publishes a chain request in this step.
PublishesRequest(n) ==
    \E m \in net' \ net : m.source = n /\ ParsesAsLocalChainRequest(m.payload)

\* C18: a step in which a node publishes a chain request is the one step in
\* which the node takes its Init event, which it takes at most once; when no
\* peer is discovered at that step nothing is published and the node's chain
\* is its genesis block alone.
C18_BootstrapsOnce ==
    [][\A n \in Node :
          /\ PublishesRequest(n) => (~initDone[n] /\ initDone'[n])
          /\ initDone[n] => initDone'[n]
          /\ (~initDone[n] /\ initDone'[n] /\ discovered[n] = {})
                => (net' = net /\ GenesisOnly(chain'[n]))]_vars

\* C18's case: a node took its Init event with no peer discovered, published
\* nothing and holds its genesis block alone.
C18_Witness ==
    /\ last.op = "init"
    /\ discovered[last.node] = {}
    /\ last.sent = 0
    /\ GenesisOnly(chain[last.node])

C20_ChainNeverShrinksAfterInit ==
    /\ (/\ last.op \in {"message", "create_block", "publish_response"}
        /\ initDone[last.node]
        /\ running[last.node])
          => Len(chain[last.node]) >= Len(last.before)
    /\ (Handled /\ last.choose = "ok") => Len(last.chosen) >= Len(last.before)

\* C20's case: a node past its Init event ran fork-choice against a shorter
\* remote chain.
C20_Witness ==
    /\ Handled
    /\ initDone[last.node]
    /\ last.choose = "ok"
    /\ Len(last.payload.blocks) < Len(last.before)
    /\ chain[last.node] = last.before

\* C13: every chain request a node handles and survives is followed, under
\* a fair event loop, by that node publishing a chain response.
C13_RequestsAreAnswered ==
    \A n \in Node :
        [] ((Handled /\ last.node = n /\ "chain_request" \in last.ran /\ running[n])
              => <>(last.op = "publish_response" /\ last.node = n))


====
